---- MODULE Spec2Model ----
\* Faceted Artifact Explorer: the home-page filter state and its query string
\* (client/src/pages/home-page.tsx, components/filter-sidebar.tsx, lib/api.ts),
\* the page-number control (components/pagination.tsx), the search box
\* (components/search-bar.tsx), the GET /api/search handler with its query
\* compiler and the routes that write the storage (server routes, storage.ts).
\*
\* Text is a sequence of characters.  A character is a one-symbol string; a
\* word that holds no comma, sign or digit ("relevance", "true", "Roman") is
\* written as one symbol, since no operation of the program looks inside it.
EXTENDS Integers, Sequences, FiniteSets, TLC

\* ------------------------------------------------------------------ bounds
MaxPage == 3          \* pages the page control can ask for in the filter-state model
MaxTotalPages == 11   \* largest totalPages given to the page-number generator

\* ------------------------------------------------------------ text helpers
Comma == ","

Str(w) == <<w>>

EmptyText == <<>>

Space == " "

\* !t.trim(): the text is empty or all blanks
IsBlank(t) == \A i \in 1..Len(t) : t[i] = Space

\* JavaScript null / undefined: a value no text is equal to.
Null == <<"\\null">>

\* x || d on a string-or-null value: null and "" are falsy.
OrElse(x, d) == IF x = Null \/ x = EmptyText THEN d ELSE x

Truthy(x) == x # Null /\ x # EmptyText

RECURSIVE Join(_, _)
\* Array.prototype.join(sep)
Join(parts, sep) ==
  IF parts = <<>> THEN EmptyText
  ELSE IF Len(parts) = 1 THEN parts[1]
  ELSE parts[1] \o <<sep>> \o Join(Tail(parts), sep)

RECURSIVE SplitFrom(_, _, _)
\* the pieces of text t after the piece cur that is being read
SplitFrom(t, sep, cur) ==
  IF t = <<>> THEN <<cur>>
  ELSE IF Head(t) = sep THEN <<cur>> \o SplitFrom(Tail(t), sep, EmptyText)
  ELSE SplitFrom(Tail(t), sep, Append(cur, Head(t)))

\* String.prototype.split(sep): "" splits into [""]
Split(t, sep) == SplitFrom(t, sep, EmptyText)

\* Array.prototype.filter(Boolean) on an array of strings
FilterBoolean(parts) == SelectSeq(parts, LAMBDA p : p # EmptyText)

Range(s) == {s[i] : i \in 1..Len(s)}

\* Array.prototype.filter(x => x !== v)
Without(arr, v) == SelectSeq(arr, LAMBDA x : x # v)

\* ---------------------------------------------------------------- numbers
\* NaN, the result of parseInt on a text with no leading number.
NaN == -999999

DigitChars == <<"0", "1", "2", "3", "4", "5", "6", "7", "8", "9">>

IsDigit(c) == \E i \in 1..10 : DigitChars[i] = c

DigitVal(c) == (CHOOSE i \in 1..10 : DigitChars[i] = c) - 1

RECURSIVE NatToStr(_)
NatToStr(n) ==
  IF n < 10 THEN <<DigitChars[n + 1]>>
  ELSE NatToStr(n \div 10) \o <<DigitChars[(n % 10) + 1]>>

\* Number.prototype.toString()
NumToStr(n) ==
  IF n = NaN THEN <<"N", "a", "N">>
  ELSE IF n < 0 THEN <<"-">> \o NatToStr(-n)
  ELSE NatToStr(n)

RECURSIVE DigitsPrefix(_, _)
\* the value of the longest run of leading digits of t, read after acc
DigitsPrefix(t, acc) ==
  IF t = <<>> \/ ~IsDigit(Head(t)) THEN acc
  ELSE DigitsPrefix(Tail(t), acc * 10 + DigitVal(Head(t)))

\* parseInt(t): optional sign, then the leading digits; NaN when there are none
ParseInt(t) ==
  LET neg == t # <<>> /\ Head(t) = "-"
      body == IF t # <<>> /\ Head(t) \in {"-", "+"} THEN Tail(t) ELSE t
  IN IF body = <<>> \/ ~IsDigit(Head(body)) THEN NaN
     ELSE IF neg THEN 0 - DigitsPrefix(body, 0) ELSE DigitsPrefix(body, 0)

\* -------------------------------------------------------- URLSearchParams
\* A query string is the list of its (name, value) pairs.
NoParams == <<>>

ParamsHas(params, k) == \E i \in 1..Len(params) : params[i][1] = k

\* URLSearchParams.get: the first value of the name, or null
ParamsGet(params, k) ==
  IF ParamsHas(params, k)
  THEN params[CHOOSE i \in 1..Len(params) :
                 /\ params[i][1] = k
                 /\ \A j \in 1..(i - 1) : params[j][1] # k][2]
  ELSE Null

ParamsAppend(params, k, v) == Append(params, <<k, v>>)

\* ------------------------------------------------------------- home page
DefaultDateStart == -3000
DefaultDateEnd == 2000
DefaultSort == Str("relevance")

VARIABLES
  search,        \* the address-bar query string
  searchQuery, cultures, materials, dateRange, has3dModel, sortOption, currentPage,
  sliderValue    \* FilterSidebar's slider state

homeVars == <<search, searchQuery, cultures, materials, dateRange, has3dModel,
              sortOption, currentPage, sliderValue>>

\* The filter state as one record.
FilterState ==
  [searchQuery |-> searchQuery, cultures |-> cultures, materials |-> materials,
   dateRange |-> dateRange, has3dModel |-> has3dModel, sortOption |-> sortOption,
   currentPage |-> currentPage]

\* HomePage's useState initialisers: the state hydrated from a query string.
Hydrate(params) ==
  [searchQuery |-> OrElse(ParamsGet(params, "query"), EmptyText),
   cultures    |-> IF ParamsGet(params, "cultures") = Null THEN <<>>
                   ELSE FilterBoolean(Split(ParamsGet(params, "cultures"), Comma)),
   materials   |-> IF ParamsGet(params, "materials") = Null THEN <<>>
                   ELSE FilterBoolean(Split(ParamsGet(params, "materials"), Comma)),
   dateRange   |-> <<ParseInt(OrElse(ParamsGet(params, "dateStart"), NumToStr(DefaultDateStart))),
                     ParseInt(OrElse(ParamsGet(params, "dateEnd"), NumToStr(DefaultDateEnd)))>>,
   has3dModel  |-> ParamsGet(params, "has3dModel") = Str("true"),
   sortOption  |-> OrElse(ParamsGet(params, "sort"), DefaultSort),
   currentPage |-> ParseInt(OrElse(ParamsGet(params, "page"), NumToStr(1)))]

AppendIf(cond, params, k, v) == IF cond THEN ParamsAppend(params, k, v) ELSE params

\* HomePage.buildQueryString
buildQueryString(s) ==
  LET p1 == AppendIf(s.searchQuery # EmptyText, NoParams, "query", s.searchQuery)
      p2 == AppendIf(Len(s.cultures) > 0, p1, "cultures", Join(s.cultures, Comma))
      p3 == AppendIf(Len(s.materials) > 0, p2, "materials", Join(s.materials, Comma))
      p4 == AppendIf(s.dateRange[1] # DefaultDateStart, p3, "dateStart", NumToStr(s.dateRange[1]))
      p5 == AppendIf(s.dateRange[2] # DefaultDateEnd, p4, "dateEnd", NumToStr(s.dateRange[2]))
      p6 == AppendIf(s.has3dModel, p5, "has3dModel", Str("true"))
      p7 == AppendIf(s.sortOption # DefaultSort, p6, "sort", s.sortOption)
      p8 == AppendIf(s.currentPage # 1, p7, "page", NumToStr(s.currentPage))
  IN p8

\* ----------------------------------------------------- filter-state events
\* Values offered by the facet catalog (GET /api/cultures, /api/materials):
\* the distinct culture / material texts of the stored artifacts.  A culture
\* is free text: the artifact form submits "" when the field is left empty.
AvailableCultures == {Str("Roman"), <<"Greek", Comma, "Hellenistic">>, EmptyText}

AvailableMaterials == {Str("bronze")}

\* Positions of the date slider (min -3000, max 2000, step 100) used here.
SliderStops == {-3000, -500, 0}

SortOptions == {Str("relevance"), Str("date_asc"), Str("date_desc"), Str("az")}

\* Query strings the page is opened with.
InitialSearches ==
  { NoParams,
    <<<<"query", Str("axe")>>, <<"cultures", Str("Roman")>>,
      <<"dateStart", NumToStr(-500)>>, <<"dateEnd", NumToStr(200)>>,
      <<"page", NumToStr(2)>>>>,
    <<<<"materials", <<"bronze", Comma, Comma, "bronze">>>>, <<"has3dModel", Str("true")>>,
      <<"sort", Str("date_asc")>>>>,
    <<<<"cultures", Str("Roman")>>, <<"has3dModel", Str("yes")>>, <<"page", NumToStr(3)>>>> }

HomeInit ==
  /\ search \in InitialSearches
  /\ searchQuery = Hydrate(search).searchQuery
  /\ cultures = Hydrate(search).cultures
  /\ materials = Hydrate(search).materials
  /\ dateRange = Hydrate(search).dateRange
  /\ has3dModel = Hydrate(search).has3dModel
  /\ sortOption = Hydrate(search).sortOption
  /\ currentPage = Hydrate(search).currentPage
  /\ sliderValue = Hydrate(search).dateRange[1]

\* Array.prototype.includes
Includes(arr, v) == v \in Range(arr)

\* a checkbox that adds the value whether it is selected or not
ToggledAppendAlways(arr, v) == Append(arr, v)

\* the array a facet checkbox hands to its setter
Toggled(arr, v) == IF Includes(arr, v) THEN Without(arr, v) ELSE Append(arr, v)

\* FilterSidebar.toggleCulture
toggleCulture(c) ==
  /\ cultures' = Toggled(cultures, c)
  /\ UNCHANGED <<search, searchQuery, materials, dateRange, has3dModel, sortOption,
                 currentPage, sliderValue>>

\* FilterSidebar.toggleMaterial
toggleMaterial(m) ==
  /\ materials' = Toggled(materials, m)
  /\ UNCHANGED <<search, searchQuery, cultures, dateRange, has3dModel, sortOption,
                 currentPage, sliderValue>>

\* FilterSidebar.handleSliderChange
handleSliderChange(v) ==
  /\ v # sliderValue
  /\ sliderValue' = v
  /\ dateRange' = <<v, dateRange[2]>>
  /\ UNCHANGED <<search, searchQuery, cultures, materials, has3dModel, sortOption,
                 currentPage>>

\* the "Has 3D Model" checkbox: setHas3dModel(!has3dModel)
toggleHas3dModel ==
  /\ has3dModel' = ~has3dModel
  /\ UNCHANGED <<search, searchQuery, cultures, materials, dateRange, sortOption,
                 currentPage, sliderValue>>

\* the sort <select>: setSortOption(e.target.value)
changeSort(o) ==
  /\ o # sortOption
  /\ sortOption' = o
  /\ UNCHANGED <<search, searchQuery, cultures, materials, dateRange, has3dModel,
                 currentPage, sliderValue>>

\* HomePage.applyFilters
applyFilters ==
  /\ currentPage' = 1
  /\ UNCHANGED <<search, searchQuery, cultures, materials, dateRange, has3dModel,
                 sortOption, sliderValue>>

\* a reset that leaves the sort as it is
resetFiltersKeepsSort ==
  /\ searchQuery' = EmptyText
  /\ cultures' = <<>>
  /\ materials' = <<>>
  /\ dateRange' = <<DefaultDateStart, DefaultDateEnd>>
  /\ has3dModel' = FALSE
  /\ currentPage' = 1
  /\ UNCHANGED <<search, sortOption, sliderValue>>

\* HomePage.resetFilters
resetFilters ==
  /\ searchQuery' = EmptyText
  /\ cultures' = <<>>
  /\ materials' = <<>>
  /\ dateRange' = <<DefaultDateStart, DefaultDateEnd>>
  /\ has3dModel' = FALSE
  /\ sortOption' = DefaultSort
  /\ currentPage' = 1
  /\ UNCHANGED <<search, sliderValue>>

\* HomePage.removeFilter("culture", value), from the chip of a selected culture
removeCulture(c) ==
  /\ Includes(cultures, c)
  /\ cultures' = Without(cultures, c)
  /\ UNCHANGED <<search, searchQuery, materials, dateRange, has3dModel, sortOption,
                 currentPage, sliderValue>>

\* HomePage.removeFilter("material", value)
removeMaterial(m) ==
  /\ Includes(materials, m)
  /\ materials' = Without(materials, m)
  /\ UNCHANGED <<search, searchQuery, cultures, dateRange, has3dModel, sortOption,
                 currentPage, sliderValue>>

\* HomePage.removeFilter("dateRange", ""), from the date chip
removeDateRange ==
  /\ dateRange[1] # DefaultDateStart \/ dateRange[2] # DefaultDateEnd
  /\ dateRange' = <<DefaultDateStart, DefaultDateEnd>>
  /\ UNCHANGED <<search, searchQuery, cultures, materials, has3dModel, sortOption,
                 currentPage, sliderValue>>

\* HomePage.removeFilter("has3dModel", "")
removeHas3dModel ==
  /\ has3dModel
  /\ has3dModel' = FALSE
  /\ UNCHANGED <<search, searchQuery, cultures, materials, dateRange, sortOption,
                 currentPage, sliderValue>>

\* HomePage.removeFilter(type, value) on the filter state s
removeFilter(s, type, value) ==
  CASE type = "culture" -> [s EXCEPT !.cultures = Without(s.cultures, value)]
    [] type = "material" -> [s EXCEPT !.materials = Without(s.materials, value)]
    [] type = "dateRange" -> [s EXCEPT !.dateRange = <<DefaultDateStart, DefaultDateEnd>>]
    [] type = "has3dModel" -> [s EXCEPT !.has3dModel = FALSE]
    [] OTHER -> s

\* The active-filter chips HomePage renders for the filter state s, in render
\* order: each chip is the (type, value) pair its onRemove hands to removeFilter.
ActiveFilters(s) ==
  IF \/ Len(s.cultures) > 0
     \/ Len(s.materials) > 0
     \/ s.dateRange[1] # DefaultDateStart
     \/ s.dateRange[2] # DefaultDateEnd
     \/ s.has3dModel
  THEN [i \in 1..Len(s.cultures) |-> <<"culture", s.cultures[i]>>]
       \o [i \in 1..Len(s.materials) |-> <<"material", s.materials[i]>>]
       \o (IF s.dateRange[1] # DefaultDateStart \/ s.dateRange[2] # DefaultDateEnd
           THEN <<<<"dateRange", EmptyText>>>> ELSE <<>>)
       \o (IF s.has3dModel THEN <<<<"has3dModel", EmptyText>>>> ELSE <<>>)
  ELSE <<>>

\* HomePage.handlePageChange
handlePageChange(p) ==
  /\ p # currentPage
  /\ currentPage' = p
  /\ UNCHANGED <<search, searchQuery, cultures, materials, dateRange, has3dModel,
                 sortOption, sliderValue>>

\* ------------------------------------------------------------- pagination
VARIABLES
  totalPages,     \* data.pagination.totalPages, the Pagination prop
  pages,          \* Pagination's pages state
  effectPending   \* the [currentPage, totalPages] effect has yet to run

pageVars == <<totalPages, pages, effectPending>>

\* the null entry that stands for an ellipsis
Ellipsis == 0

\* the numbers lo..hi as an array
Numbers(lo, hi) == [i \in 1..(IF hi >= lo THEN hi - lo + 1 ELSE 0) |-> lo + i - 1]

Max(a, b) == IF a >= b THEN a ELSE b

Min(a, b) == IF a <= b THEN a ELSE b

\* a "start > 2" test off by one: the ellipsis is put after page 1 whenever the
\* window does not start at 1
generatePagesEllipsisOffByOne(cp, tp) ==
  IF tp <= 7 THEN Numbers(1, tp)
  ELSE
    LET start0 == Max(2, cp - 1)
        end0 == Min(tp - 1, cp + 1)
        end1 == IF start0 = 2 THEN Min(tp - 1, start0 + 2) ELSE end0
        start1 == IF end1 = tp - 1 THEN Max(2, end1 - 2) ELSE start0
    IN <<1>>
       \o (IF start1 > 1 THEN <<Ellipsis>> ELSE <<>>)
       \o Numbers(start1, end1)
       \o (IF end1 < tp - 1 THEN <<Ellipsis>> ELSE <<>>)
       \o <<tp>>

\* Pagination.generatePages
generatePages(cp, tp) ==
  IF tp <= 7 THEN Numbers(1, tp)
  ELSE
    LET start0 == Max(2, cp - 1)
        end0 == Min(tp - 1, cp + 1)
        end1 == IF start0 = 2 THEN Min(tp - 1, start0 + 2) ELSE end0
        start1 == IF end1 = tp - 1 THEN Max(2, end1 - 2) ELSE start0
    IN <<1>>
       \o (IF start1 > 2 THEN <<Ellipsis>> ELSE <<>>)
       \o Numbers(start1, end1)
       \o (IF end1 < tp - 1 THEN <<Ellipsis>> ELSE <<>>)
       \o <<tp>>

\* the useEffect on [currentPage, totalPages]
generatePagesEffect ==
  /\ effectPending
  /\ pages' = generatePages(currentPage, totalPages)
  /\ effectPending' = FALSE
  /\ UNCHANGED <<homeVars, totalPages>>

\* the control is rendered, with its effect run, and takes clicks
PaginationShown == ~effectPending /\ totalPages > 1

\* a numbered button: onPageChange(page)
clickPageNumber(p) ==
  /\ PaginationShown
  /\ p \in Range(pages) \ {Ellipsis}
  /\ handlePageChange(p)
  /\ effectPending' = TRUE
  /\ UNCHANGED <<totalPages, pages>>

\* the Previous button, disabled on page 1: onPageChange(currentPage - 1)
clickPrevious ==
  /\ PaginationShown
  /\ currentPage # 1
  /\ handlePageChange(currentPage - 1)
  /\ effectPending' = TRUE
  /\ UNCHANGED <<totalPages, pages>>

\* the Next button, disabled on the last page: onPageChange(currentPage + 1)
clickNext ==
  /\ PaginationShown
  /\ currentPage # totalPages
  /\ currentPage < MaxTotalPages
  /\ handlePageChange(currentPage + 1)
  /\ effectPending' = TRUE
  /\ UNCHANGED <<totalPages, pages>>

\* a search response with another page count reaches the control
receiveTotalPages(tp) ==
  /\ ~effectPending
  /\ tp # totalPages
  /\ totalPages' = tp
  /\ effectPending' = TRUE
  /\ UNCHANGED <<homeVars, pages>>

PagesInit ==
  /\ search = NoParams
  /\ searchQuery = EmptyText
  /\ cultures = <<>>
  /\ materials = <<>>
  /\ dateRange = <<DefaultDateStart, DefaultDateEnd>>
  /\ has3dModel = FALSE
  /\ sortOption = DefaultSort
  /\ sliderValue = DefaultDateStart
  /\ totalPages \in 1..MaxTotalPages
  \* a page of the result, or the page after the last one (hydrated from the
  \* URL: the search engine answers it with no rows and the true total)
  /\ currentPage \in 1..(totalPages + 1)
  /\ pages = <<>>
  /\ effectPending = TRUE

\* the page control of the home-page model: none rendered
PagesIdle == totalPages = 1 /\ pages = <<>> /\ effectPending = FALSE

\* ------------------------------------------------------------ stored data
\* Rows of the artifacts table (shared/schema artifacts), also the documents
\* of the search index.
ArtifactRows ==
  { [id |-> 1, title |-> Str("axe"), culture |-> Str("Roman"),
     materials |-> <<Str("bronze")>>, tags |-> <<Str("tool")>>, site |-> Str("Ostia"),
     has_3d_model |-> TRUE, date_start |-> -500, date_end |-> 200],
    [id |-> 2, title |-> Str("axe"), culture |-> Str("Greek"),
     materials |-> <<Str("iron")>>, tags |-> <<Str("tool"), Str("votive")>>, site |-> Str("Delos"),
     has_3d_model |-> FALSE, date_start |-> -500, date_end |-> -400],
    [id |-> 3, title |-> Str("bowl"), culture |-> Str("Roman"),
     materials |-> <<Str("bronze"), Str("iron")>>, tags |-> <<>>, site |-> Str("Ostia"),
     has_3d_model |-> FALSE, date_start |-> 100, date_end |-> 300] }

\* the collation order of the titles above
TitleRank(t) == IF t = Str("axe") THEN 1 ELSE 2

\* Contents of the artifact_images table.  Image ids follow insertion order.
ImageTables ==
  { \* artifact 1: three images, the second by sort order flagged primary,
    \* inserted in another order
    { [id |-> 1, artifact_id |-> 1, url |-> "u1", is_primary |-> FALSE, sort_order |-> 3],
      [id |-> 2, artifact_id |-> 1, url |-> "u2", is_primary |-> FALSE, sort_order |-> 1],
      [id |-> 3, artifact_id |-> 1, url |-> "u3", is_primary |-> TRUE, sort_order |-> 2],
      [id |-> 4, artifact_id |-> 2, url |-> "u4", is_primary |-> TRUE, sort_order |-> 0] },
    \* the primary image first by sort order; two images with the default sort_order
    { [id |-> 1, artifact_id |-> 1, url |-> "u1", is_primary |-> TRUE, sort_order |-> 1],
      [id |-> 2, artifact_id |-> 1, url |-> "u2", is_primary |-> FALSE, sort_order |-> 2],
      [id |-> 3, artifact_id |-> 3, url |-> "u3", is_primary |-> FALSE, sort_order |-> 0],
      [id |-> 4, artifact_id |-> 3, url |-> "u4", is_primary |-> FALSE, sort_order |-> 0] } }

VARIABLES
  esClient,     \* whether the search-engine client was configured at startup
  imageRows,    \* the artifact_images table
  pc,           \* where the GET /api/search handler stands
  reqQuery,     \* req.query of the request being served
  backendQuery, \* the query handed to the search engine or to storage
  hits,         \* the rows the backend returned, in its order
  total,        \* the engine's hit count
  completed,    \* indices of the image lookups that completed, in that order
  enriched,     \* the array Promise.all fills
  response      \* what the handler sent

searchVars == <<esClient, imageRows, pc, reqQuery, backendQuery, hits, total, completed,
                enriched, response>>

VARIABLES
  queries       \* the query cache of the client: request key -> query state

clientVars == <<queries>>

VARIABLES
  storedArtifacts,  \* the artifacts table
  tagRows,          \* the tags table
  artifactTagRows,  \* the artifact_tags table
  calls             \* the requests to the writing routes that are being served

storeVars == <<storedArtifacts, tagRows, artifactTagRows, calls>>

VARIABLES
  query,        \* SearchBar's input text
  isFocused,    \* whether SearchBar shows its suggestions
  suggestions   \* SearchBar's suggestion list

barVars == <<query, isFocused, suggestions>>

vars == <<homeVars, pageVars, searchVars, clientVars, storeVars, barVars>>

\* an optional number: undefined, or the number
None == <<>>

Some(n) == <<n>>

\* an optional string-or-array parameter of req.query
Undef == <<"undef">>

StrParam(t) == <<"str", t>>

ArrParam(a) == <<"arr", a>>

IsArray(v) == v[1] = "arr"

\* if (v): undefined and "" are falsy, an array is truthy
ParamTruthy(v) == v[1] = "arr" \/ (v[1] = "str" /\ v[2] # EmptyText)

\* Array.isArray(v) ? v : [v]
AsArray(v) == IF IsArray(v) THEN v[2] ELSE <<v[2]>>

SortEnum == {Str("relevance"), Str("date_asc"), Str("date_desc"), Str("az")}

\* req.query.x ? parseInt(req.query.x) : fallback
ParseOr(t, fallback) == IF Truthy(t) THEN Some(ParseInt(t)) ELSE fallback

\* the object handed to artifactSearchParamsSchema.parse
RawParams(q) ==
  [query |-> q.query, cultures |-> q.cultures, materials |-> q.materials,
   dateStart |-> ParseOr(q.dateStart, None), dateEnd |-> ParseOr(q.dateEnd, None),
   tags |-> q.tags, site |-> q.site, has3dModel |-> q.has3dModel = Str("true"),
   page |-> ParseOr(q.page, Some(1))[1], limit |-> ParseOr(q.limit, Some(12))[1],
   sort |-> OrElse(q.sort, Str("relevance"))]

\* the fields artifactSearchParamsSchema rejects (z.number() refuses NaN,
\* z.enum refuses other words)
SchemaErrors(raw) ==
  {f \in {"dateStart", "dateEnd"} : raw[f] # None /\ raw[f][1] = NaN}
  \cup {f \in {"page", "limit"} : raw[f] = NaN}
  \cup {f \in {"sort"} : raw[f] \notin SortEnum}

\* --------------------------------------------------------- query compiler
\* A clause of the compiled bool query.  values is the array of a terms/term
\* clause; bounds holds (field, operator, number) of a range clause.
Clause(kind, field, values, bounds) ==
  [kind |-> kind, field |-> field, values |-> values, bounds |-> bounds]

\* the multi_match clause over title^3, description^2, culture, period,
\* materials, site, tags with fuzziness AUTO
mustClauses(params) ==
  IF Truthy(params.query)
  THEN <<Clause("multi_match", "*", <<params.query>>, {})>>
  ELSE <<>>

\* the terms clause of one facet parameter
termsClause(v, field) ==
  IF ParamTruthy(v) /\ Len(AsArray(v)) > 0
  THEN <<Clause("terms", field, AsArray(v), {})>>
  ELSE <<>>

\* the site and has_3d_model term clauses
termClauses(params) ==
  (IF Truthy(params.site) THEN <<Clause("term", "site", <<params.site>>, {})>> ELSE <<>>)
  \o (IF params.has3dModel THEN <<Clause("term", "has_3d_model", <<Str("true")>>, {})>> ELSE <<>>)

\* both bounds put on date_start
dateRangeClauseOneField(params) ==
  IF params.dateStart # None \/ params.dateEnd # None
  THEN <<Clause("range", "date", <<>>,
           (IF params.dateStart # None THEN {<<"date_start", "gte", params.dateStart[1]>>} ELSE {})
           \cup (IF params.dateEnd # None THEN {<<"date_start", "lte", params.dateEnd[1]>>} ELSE {}))>>
  ELSE <<>>

\* the date range filter
dateRangeClause(params) ==
  IF params.dateStart # None \/ params.dateEnd # None
  THEN <<Clause("range", "date", <<>>,
           (IF params.dateStart # None THEN {<<"date_start", "gte", params.dateStart[1]>>} ELSE {})
           \cup (IF params.dateEnd # None THEN {<<"date_end", "lte", params.dateEnd[1]>>} ELSE {}))>>
  ELSE <<>>

\* relevance sorted by id whether or not there is query text
compiledSortIdAlways(params) ==
  IF params.sort = Str("date_asc") THEN <<<<"date_start", "asc">>>>
  ELSE IF params.sort = Str("date_desc") THEN <<<<"date_start", "desc">>>>
  ELSE IF params.sort = Str("az") THEN <<<<"title", "asc">>>>
  ELSE <<<<"id", "desc">>>>

\* the sort array: (field, order) keys, empty when the engine's scoring orders
compiledSort(params) ==
  IF params.sort = Str("date_asc") THEN <<<<"date_start", "asc">>>>
  ELSE IF params.sort = Str("date_desc") THEN <<<<"date_start", "desc">>>>
  ELSE IF params.sort = Str("az") THEN <<<<"title", "asc">>>>
  ELSE IF ~Truthy(params.query) THEN <<<<"id", "desc">>>>
  ELSE <<>>

\* buildElasticsearchQuery
buildElasticsearchQuery(params) ==
  [must   |-> mustClauses(params),
   filter |-> termsClause(params.cultures, "culture")
              \o termsClause(params.materials, "materials")
              \o termsClause(params.tags, "tags")
              \o termClauses(params)
              \o dateRangeClause(params),
   sort   |-> compiledSort(params)]

getSortFieldFromSearchParams(sort) ==
  IF sort \in {Str("date_asc"), Str("date_desc")} THEN "date_start"
  ELSE IF sort = Str("az") THEN "title"
  ELSE "id"

\* the az case left out of the switch
getSortDirectionAzMissing(sort) ==
  IF sort = Str("date_asc") THEN "asc" ELSE "desc"

getSortDirectionFromSearchParams(sort) ==
  IF sort \in {Str("date_asc"), Str("az")} THEN "asc" ELSE "desc"

NoBody == [must |-> <<>>, filter |-> <<>>, sort |-> <<>>]

NoQuery == [engine |-> "none", from |-> 0, size |-> 0, body |-> NoBody]

\* the offset taken as page * limit
EngineQueryOffsetByPage(params) ==
  [engine |-> "es", from |-> params.page * params.limit, size |-> params.limit,
   body |-> buildElasticsearchQuery(params)]

\* esClient.search({index, from, size, body})
EngineQuery(params) ==
  [engine |-> "es", from |-> (params.page - 1) * params.limit, size |-> params.limit,
   body |-> buildElasticsearchQuery(params)]

\* storage.listArtifacts({limit, offset, sortBy, sortDir}): one ORDER BY column
FallbackQuery(params) ==
  [engine |-> "db", from |-> (params.page - 1) * params.limit, size |-> params.limit,
   body |-> [must |-> <<>>, filter |-> <<>>,
             sort |-> <<<<getSortFieldFromSearchParams(params.sort),
                          getSortDirectionFromSearchParams(params.sort)>>>>]]

\* ----------------------------------------------------------- the backends
FieldOf(a, f) ==
  IF f = "date_start" THEN a.date_start
  ELSE IF f = "date_end" THEN a.date_end
  ELSE IF f = "title" THEN TitleRank(a.title)
  ELSE a.id

RECURSIVE InOrder(_, _, _)
\* a may come before b under the sort keys; rows equal on every key may come
\* in either order
InOrder(a, b, keys) ==
  IF keys = <<>> THEN TRUE
  ELSE LET ka == FieldOf(a, keys[1][1])
           kb == FieldOf(b, keys[1][1])
       IN IF ka = kb THEN InOrder(a, b, Tail(keys))
          ELSE IF keys[1][2] = "asc" THEN ka < kb ELSE ka > kb

\* every order of the rows the sort keys allow
Orderings(rows, keys) ==
  {s \in [1..Cardinality(rows) -> rows] :
     /\ \A i, j \in 1..Cardinality(rows) : i # j => s[i] # s[j]
     /\ \A i, j \in 1..Cardinality(rows) : i < j => InOrder(s[i], s[j], keys)}

\* LIMIT size OFFSET from
Slice(s, from, size) ==
  [i \in 1..Max(0, Min(size, Len(s) - from)) |-> s[from + i]]

\* whether a document satisfies a clause of the compiled query
Satisfies(doc, c) ==
  IF c.kind = "multi_match" THEN doc.title \in Range(c.values)
  ELSE IF c.kind = "terms" /\ c.field = "culture" THEN doc.culture \in Range(c.values)
  ELSE IF c.kind = "terms" /\ c.field = "materials"
    THEN Range(doc.materials) \cap Range(c.values) # {}
  ELSE IF c.kind = "terms" THEN Range(doc.tags) \cap Range(c.values) # {}
  ELSE IF c.kind = "term" /\ c.field = "site" THEN doc.site \in Range(c.values)
  ELSE IF c.kind = "term" THEN doc.has_3d_model
  ELSE \A b \in c.bounds :
         IF b[2] = "gte" THEN FieldOf(doc, b[1]) >= b[3] ELSE FieldOf(doc, b[1]) <= b[3]

\* the documents the compiled query selects
Matching(body) ==
  {doc \in ArtifactRows :
     \A i \in 1..Len(body.must \o body.filter) : Satisfies(doc, (body.must \o body.filter)[i])}

\* DatabaseStorage.getArtifactImages: the artifact's rows ORDER BY sort_order asc
getArtifactImages(artifactId) ==
  LET rows == {r \in imageRows : r.artifact_id = artifactId}
  IN {s \in [1..Cardinality(rows) -> rows] :
        /\ \A i, j \in 1..Cardinality(rows) : i # j => s[i] # s[j]
        /\ \A i, j \in 1..Cardinality(rows) : i < j => s[i].sort_order <= s[j].sort_order}

\* ------------------------------------------------------- GET /api/search
\* req.query of the requests served here: each parameter absent or one of a
\* few values, a facet as one comma-joined string or as repeated parameters.
SearchRequests ==
  [query : {Null, Str("axe")},
   cultures : {Undef, StrParam(Str("Roman")), StrParam(<<"Roman", Comma, "Greek">>),
               ArrParam(<<Str("Roman"), Str("Greek")>>)},
   materials : {Undef, StrParam(EmptyText)},
   tags : {Undef, StrParam(<<"tool", Comma, "votive">>)},
   dateStart : {Null, NumToStr(-500), NumToStr(0)},
   dateEnd : {Null, NumToStr(200)},
   site : {Null},
   has3dModel : {Null, Str("true")},
   page : {Null, NumToStr(2)},
   limit : {Null, NumToStr(2)},
   sort : {Null, Str("date_asc"), Str("date_desc"), Str("az"), Str("newest")}]

NoRequest ==
  [query |-> Null, cultures |-> Undef, materials |-> Undef, tags |-> Undef,
   dateStart |-> Null, dateEnd |-> Null, site |-> Null, has3dModel |-> Null,
   page |-> Null, limit |-> Null, sort |-> Null]

\* requests at the edges of the parameters: an empty query text or sort, page
\* 0, a limit of 0 or of more than 100
EdgeRequests ==
  {[NoRequest EXCEPT !.query = q, !.page = p, !.limit = l, !.sort = o] :
     q \in {Null, EmptyText}, p \in {Null, NumToStr(0), NumToStr(2)},
     l \in {Null, NumToStr(0), NumToStr(101)}, o \in {Null, EmptyText, Str("az")}}

NoArtifact ==
  [id |-> 0, title |-> EmptyText, culture |-> EmptyText, materials |-> <<>>, tags |-> <<>>,
   site |-> EmptyText, has_3d_model |-> FALSE, date_start |-> 0, date_end |-> 0]

\* an entry of the array Promise.all has not filled yet
Unfilled == [art |-> NoArtifact, image_urls |-> <<>>, primary_image_url |-> "null"]

NoResponse ==
  [status |-> 0, artifacts |-> <<>>, errors |-> {},
   pagination |-> [page |-> 0, limit |-> 0, total |-> 0, totalPages |-> 0]]

\* the number JavaScript calls Infinity
Infinity == 999999

\* Math.ceil(a / b) for a >= 0 and b >= 0: n / 0 is Infinity and 0 / 0 is NaN
Ceil(a, b) ==
  IF b = 0 THEN (IF a = 0 THEN NaN ELSE Infinity)
  ELSE (a + b - 1) \div b

\* the result is appended when its lookup completes
PlaceByCompletion(arr, i, v) ==
  [arr EXCEPT ![CHOOSE j \in 1..Len(arr) :
                  /\ arr[j] = Unfilled
                  /\ \A k \in 1..(j - 1) : arr[k] # Unfilled] = v]

\* Promise.all: the result of the i-th promise is the i-th entry
Place(arr, i, v) == [arr EXCEPT ![i] = v]

\* the object the map callback returns for an artifact and its image rows
Enrich(art, imgs) ==
  LET urls == [k \in 1..Len(imgs) |-> imgs[k].url]
  IN [art |-> art, image_urls |-> urls,
      primary_image_url |-> IF urls = <<>> THEN "null" ELSE urls[1]]

\* indices of the image lookups still running
Pending == (1..Len(hits)) \ Range(completed)

\* the handler up to its first await: validation, then the backend call
receiveRequest(q) ==
  /\ pc = "idle"
  /\ reqQuery' = q
  /\ hits' = <<>>
  /\ total' = 0
  /\ completed' = <<>>
  /\ enriched' = <<>>
  /\ IF SchemaErrors(RawParams(q)) # {}
     THEN /\ pc' = "done"
          /\ backendQuery' = NoQuery
          /\ response' = [NoResponse EXCEPT !.status = 400,
                                            !.errors = SchemaErrors(RawParams(q))]
     ELSE /\ pc' = "backend"
          /\ backendQuery' = IF esClient THEN EngineQuery(RawParams(q))
                             ELSE FallbackQuery(RawParams(q))
          /\ response' = NoResponse
  /\ UNCHANGED <<homeVars, pageVars, clientVars, storeVars, barVars, esClient, imageRows>>

\* the backend answers; the handler starts one image lookup per row
backendReturns ==
  /\ pc = "backend"
  /\ backendQuery.from >= 0
  /\ backendQuery.size >= 0
  /\ LET rows == IF backendQuery.engine = "es" THEN Matching(backendQuery.body)
                 ELSE ArtifactRows
     IN /\ \E s \in Orderings(rows, backendQuery.body.sort) :
             hits' = Slice(s, backendQuery.from, backendQuery.size)
        /\ total' = IF backendQuery.engine = "es" THEN Cardinality(rows) ELSE 0
  /\ completed' = <<>>
  /\ enriched' = [i \in 1..Len(hits') |-> Unfilled]
  /\ pc' = "enrich"
  /\ UNCHANGED <<homeVars, pageVars, clientVars, storeVars, barVars, esClient, imageRows, reqQuery, backendQuery, response>>

\* the awaited backend call rejects (a negative offset is refused by the engine
\* and by the database; a connection can fail at any time): catch, next(err)
backendFails ==
  /\ pc = "backend"
  /\ response' = [NoResponse EXCEPT !.status = 500]
  /\ pc' = "done"
  /\ UNCHANGED <<homeVars, pageVars, clientVars, storeVars, barVars, esClient, imageRows, reqQuery, backendQuery, hits,
                 total, completed, enriched>>

\* the image lookup of the i-th row completes
lookupCompletes(i) ==
  /\ pc = "enrich"
  /\ i \in Pending
  /\ \E imgs \in getArtifactImages(hits[i].id) :
       enriched' = Place(enriched, i, Enrich(hits[i], imgs))
  /\ completed' = Append(completed, i)
  /\ UNCHANGED <<homeVars, pageVars, clientVars, storeVars, barVars, esClient, imageRows, pc, reqQuery, backendQuery,
                 hits, total, response>>

\* Promise.all has resolved: res.json
respond ==
  /\ pc = "enrich"
  /\ Pending = {}
  /\ LET params == RawParams(reqQuery)
         n == IF backendQuery.engine = "es" THEN total ELSE Len(enriched)
     IN response' = [status |-> 200, artifacts |-> enriched, errors |-> {},
                     pagination |-> [page |-> params.page, limit |-> params.limit,
                                     total |-> n, totalPages |-> Ceil(n, params.limit)]]
  /\ pc' = "done"
  /\ UNCHANGED <<homeVars, pageVars, clientVars, storeVars, barVars, esClient, imageRows, reqQuery, backendQuery, hits,
                 total, completed, enriched>>

\* the response is sent and the handler's locals are gone
requestEnds ==
  /\ pc = "done"
  /\ pc' = "idle"
  /\ reqQuery' = NoRequest
  /\ backendQuery' = NoQuery
  /\ hits' = <<>>
  /\ total' = 0
  /\ completed' = <<>>
  /\ enriched' = <<>>
  /\ response' = NoResponse
  /\ UNCHANGED <<homeVars, pageVars, clientVars, storeVars, barVars, esClient, imageRows>>

\* the top-level fields of the JSON body sent with response r: res.json of the
\* engine branch and of the fallback branch, the 400 of the catch block;
\* next(err) leaves the body to the application's error handler
BodyKeys(r) ==
  IF r.status = 200 THEN {"artifacts", "pagination"}
  ELSE IF r.status = 400 THEN {"message", "errors"}
  ELSE {}

\* the client's query cache is empty
NoQueries == <<>>

\* no request is being served
SearchIdle ==
  /\ pc = "idle"
  /\ reqQuery = NoRequest
  /\ backendQuery = NoQuery
  /\ hits = <<>>
  /\ total = 0
  /\ completed = <<>>
  /\ enriched = <<>>
  /\ response = NoResponse

\* ------------------------------------------------------------ lib/api.ts
\* A Partial<ArtifactSearchParams>: query, site, sort are a text or Null; the
\* facets are Undef, a string or an array; the numbers and the flag are None
\* or Some(value).
NoSearchParams ==
  [query |-> Null, cultures |-> Undef, materials |-> Undef, dateStart |-> None,
   dateEnd |-> None, tags |-> Undef, site |-> Null, has3dModel |-> None, page |-> None,
   limit |-> None, sort |-> Null]

\* the value appended for a facet: an array is joined, a string is kept
FacetText(v) == IF IsArray(v) THEN Join(v[2], Comma) ELSE v[2]

BoolToStr(b) == IF b THEN Str("true") ELSE Str("false")

\* buildSearchQueryString
buildSearchQueryString(params) ==
  LET p1 == AppendIf(Truthy(params.query), NoParams, "query", params.query)
      p2 == IF ParamTruthy(params.cultures)
            THEN ParamsAppend(p1, "cultures", FacetText(params.cultures)) ELSE p1
      p3 == IF ParamTruthy(params.materials)
            THEN ParamsAppend(p2, "materials", FacetText(params.materials)) ELSE p2
      p4 == IF params.dateStart # None
            THEN ParamsAppend(p3, "dateStart", NumToStr(params.dateStart[1])) ELSE p3
      p5 == IF params.dateEnd # None
            THEN ParamsAppend(p4, "dateEnd", NumToStr(params.dateEnd[1])) ELSE p4
      p6 == IF ParamTruthy(params.tags)
            THEN ParamsAppend(p5, "tags", FacetText(params.tags)) ELSE p5
      p7 == AppendIf(Truthy(params.site), p6, "site", params.site)
      p8 == IF params.has3dModel # None
            THEN ParamsAppend(p7, "has3dModel", BoolToStr(params.has3dModel[1])) ELSE p7
      p9 == IF params.page # None
            THEN ParamsAppend(p8, "page", NumToStr(params.page[1])) ELSE p8
      p10 == IF params.limit # None
             THEN ParamsAppend(p9, "limit", NumToStr(params.limit[1])) ELSE p9
      p11 == AppendIf(params.sort # Null, p10, "sort", params.sort)
  IN p11

\* has(k) ? (get(k) ? get(k).split(",") : undefined) : absent
ParsedFacet(params, k) ==
  IF ParamsHas(params, k) /\ ParamsGet(params, k) # EmptyText
  THEN ArrParam(Split(ParamsGet(params, k), Comma)) ELSE Undef

\* has(k) ? (get(k) ? parseInt(get(k)) : undefined) : absent
ParsedNumber(params, k) ==
  IF ParamsHas(params, k) /\ ParamsGet(params, k) # EmptyText
  THEN Some(ParseInt(ParamsGet(params, k))) ELSE None

\* has(k) ? (get(k) || undefined) : absent
ParsedText(params, k) ==
  IF ParamsHas(params, k) /\ ParamsGet(params, k) # EmptyText
  THEN ParamsGet(params, k) ELSE Null

\* parseSearchParams
parseSearchParams(params) ==
  [query |-> ParsedText(params, "query"),
   cultures |-> ParsedFacet(params, "cultures"),
   materials |-> ParsedFacet(params, "materials"),
   dateStart |-> ParsedNumber(params, "dateStart"),
   dateEnd |-> ParsedNumber(params, "dateEnd"),
   tags |-> ParsedFacet(params, "tags"),
   site |-> ParsedText(params, "site"),
   has3dModel |-> IF ParamsHas(params, "has3dModel")
                  THEN Some(ParamsGet(params, "has3dModel") = Str("true")) ELSE None,
   page |-> ParsedNumber(params, "page"),
   limit |-> ParsedNumber(params, "limit"),
   sort |-> ParsedText(params, "sort")]

\* ------------------------------------------------- navigation, deep links
\* URLSearchParams.set: the first pair of the name takes the value and the
\* later pairs of that name go; the pair is appended when the name is absent
ParamsSet(params, k, v) ==
  IF ParamsHas(params, k)
  THEN LET first == CHOOSE i \in 1..Len(params) :
                      /\ params[i][1] = k
                      /\ \A j \in 1..(i - 1) : params[j][1] # k
       IN SubSeq(params, 1, first - 1) \o <<<<k, v>>>>
          \o SelectSeq(SubSeq(params, first + 1, Len(params)), LAMBDA pr : pr[1] # k)
  ELSE ParamsAppend(params, k, v)

\* texts typed into the header's search box
SearchTexts == {Str("vase")}

\* SearchBar.handleSubmit of the header's search box (no onSearch), the home
\* page shown: the query parameter is set in the current query string and
\* setLocation goes there.  HomePage stays mounted and keeps its state.
searchBarSubmit(text) ==
  /\ ~IsBlank(text)
  /\ search' = ParamsSet(search, "query", text)
  /\ UNCHANGED <<searchQuery, cultures, materials, dateRange, has3dModel, sortOption,
                 currentPage, sliderValue>>

\* back / forward to another query string of the home page: useSearch gives
\* the new string, the useState initialisers do not run again
navigate(u) ==
  /\ u # search
  /\ search' = u
  /\ UNCHANGED <<searchQuery, cultures, materials, dateRange, has3dModel, sortOption,
                 currentPage, sliderValue>>

\* the page is loaded at a query string: HomePage mounts and its useState
\* initialisers hydrate the state, FilterSidebar's among them
openDeepLink(u) ==
  /\ search' = u
  /\ searchQuery' = Hydrate(u).searchQuery
  /\ cultures' = Hydrate(u).cultures
  /\ materials' = Hydrate(u).materials
  /\ dateRange' = Hydrate(u).dateRange
  /\ has3dModel' = Hydrate(u).has3dModel
  /\ sortOption' = Hydrate(u).sortOption
  /\ currentPage' = Hydrate(u).currentPage
  /\ sliderValue' = Hydrate(u).dateRange[1]

\* one parameter of a link, Null standing for its absence
LinkParam(k, v) == IF v = Null THEN NoParams ELSE <<<<k, v>>>>

\* Deep links: dateStart, dateEnd and page each absent, an integer, or a text
\* that is not an integer (a word, the empty text, digits followed by a word,
\* a decimal).
DeepLinks ==
  {LinkParam("dateStart", ds) \o LinkParam("dateEnd", de) \o LinkParam("page", pg) :
     ds \in {Null, NumToStr(-500), Str("abc"), EmptyText, <<"1", "2", "abc">>},
     de \in {Null, NumToStr(200), Str("abc"), <<"2", "0", "0", "x">>},
     pg \in {Null, NumToStr(2), Str("abc"), EmptyText, <<"2", ".", "5">>, NumToStr(-1)}}

\* ------------------------------------------------------- useQuery, display
\* a key that leaves the page out
RequestKeyWithoutPage(s) == buildQueryString([s EXCEPT !.currentPage = 1])

\* the key of HomePage's useQuery: /api/search? followed by buildQueryString()
RequestKey(s) == buildQueryString(s)

\* the URL a query's fetch requests: the key itself
FetchUrl(key) == key

\* data of a query that has none (undefined)
NoData == [defined |-> FALSE, url |-> NoParams, artifacts |-> 0, total |-> 0, totalPages |-> 0]

\* what the server may answer to the request of a URL: no artifact, or a page
\* of two artifacts out of five on three pages
ServerAnswers(url) ==
  {[defined |-> TRUE, url |-> url, artifacts |-> 0, total |-> 0, totalPages |-> 0],
   [defined |-> TRUE, url |-> url, artifacts |-> 2, total |-> 5, totalPages |-> 3]}

\* a query just created: no data, its first fetch running
NewQuery == [status |-> "pending", data |-> NoData, fetching |-> TRUE]

\* useQuery after a render with key k: a key without a query gets one and its
\* fetch starts; a key with a query is observed as it is
Observe(qs, k) ==
  IF k \in DOMAIN qs THEN qs
  ELSE [x \in DOMAIN qs \cup {k} |-> IF x = k THEN NewQuery ELSE qs[x]]

\* the render that follows a state change observes the new key
observe == queries' = Observe(queries, RequestKey(FilterState)')

\* the query HomePage observes: { data, isLoading, isError }
Observed == queries[RequestKey(FilterState)]

isLoading == Observed.status = "pending"

isError == Observed.status = "error"

\* the response of a query's fetch arrives and becomes the query's data
responseArrives(k) ==
  /\ k \in DOMAIN queries
  /\ queries[k].fetching
  /\ \E d \in ServerAnswers(FetchUrl(k)) :
       queries' = [queries EXCEPT ![k] = [status |-> "success", data |-> d, fetching |-> FALSE]]
  /\ UNCHANGED <<homeVars, pageVars, searchVars, storeVars, barVars>>

\* a query's fetch fails: the query is in error and keeps the data it had
requestFails(k) ==
  /\ k \in DOMAIN queries
  /\ queries[k].fetching
  /\ queries' = [queries EXCEPT ![k] = [status |-> "error", data |-> @.data, fetching |-> FALSE]]
  /\ UNCHANGED <<homeVars, pageVars, searchVars, storeVars, barVars>>

\* the observed query is fetched again in the background (window focus,
\* reconnect, remount, as the query client's options allow)
refetch ==
  /\ ~Observed.fetching
  /\ queries' = [queries EXCEPT ![RequestKey(FilterState)].fetching = TRUE]
  /\ UNCHANGED <<homeVars, pageVars, searchVars, storeVars, barVars>>

\* what HomePage renders from the observed query
CountShown == ~isLoading /\ Observed.data.defined

LoadingShown == isLoading

ErrorShown == isError

EmptyShown == ~isLoading /\ ~isError /\ Observed.data.defined /\ Observed.data.artifacts = 0

GridShown == ~isLoading /\ ~isError /\ Observed.data.defined /\ Observed.data.artifacts > 0

PaginationRendered ==
  ~isLoading /\ ~isError /\ Observed.data.defined /\ Observed.data.totalPages > 1

\* ------------------------------------------- routes that write the storage
MaxCalls == 2    \* requests to the image routes served at the same time
MaxImages == 5   \* rows the artifact_images table holds at most
MaxLinks == 1    \* rows the artifact_tags table holds at most

\* What the authentication guard tells a handler about the requester:
\* req.isAuthenticated() and req.user.role.
Requesters ==
  {[authenticated |-> FALSE, role |-> "none"]}
  \cup {[authenticated |-> TRUE, role |-> r] : r \in {"viewer", "curator", "admin"}}

\* a call slot that serves no request
NoCall ==
  [route |-> "none", user |-> [authenticated |-> FALSE, role |-> "none"], pc |-> "idle",
   imageId |-> 0, artifactId |-> 0, isPrimary |-> FALSE, found |-> FALSE]

\* the variables the writing routes leave alone
outsideStore ==
  <<homeVars, pageVars, clientVars, barVars, esClient, pc, reqQuery, backendQuery, hits,
    total, completed, enriched, response>>

\* DELETE /api/admin/artifacts/:id, requester u: storage.deleteArtifact(id)
deleteArtifactRoute(u, id) ==
  /\ storedArtifacts' = {a \in storedArtifacts : a.id # id}
  /\ UNCHANGED <<imageRows, tagRows, artifactTagRows, calls, outsideStore>>

\* POST /api/curator/tags, requester u: storage.createTag; tags.name is
\* unique, the insert of a name already there is refused
createTagRoute(u, name) ==
  /\ tagRows' = IF \E i \in 1..Len(tagRows) : tagRows[i].name = name THEN tagRows
                ELSE Append(tagRows, [id |-> Len(tagRows) + 1, name |-> name])
  /\ UNCHANGED <<storedArtifacts, imageRows, artifactTagRows, calls, outsideStore>>

\* POST /api/curator/artifacts/:artifactId/tags/:tagId, requester u:
\* storage.addTagToArtifact
addTagRoute(u, artifactId, tagId) ==
  /\ Len(artifactTagRows) < MaxLinks
  /\ artifactTagRows' = Append(artifactTagRows, [artifact_id |-> artifactId, tag_id |-> tagId])
  /\ UNCHANGED <<storedArtifacts, imageRows, tagRows, calls, outsideStore>>

\* DELETE /api/curator/artifacts/:artifactId/tags/:tagId, requester u:
\* storage.removeTagFromArtifact
removeTagRoute(u, artifactId, tagId) ==
  /\ artifactTagRows' = SelectSeq(artifactTagRows,
                                  LAMBDA r : ~(r.artifact_id = artifactId /\ r.tag_id = tagId))
  /\ UNCHANGED <<storedArtifacts, imageRows, tagRows, calls, outsideStore>>

\* PUT /api/curator/images/:id/primary, requester u, up to its first await:
\* storage.setPrimaryImage(imageId) is called
setPrimaryRoute(k, u, imageId) ==
  /\ calls[k] = NoCall
  /\ calls' = [calls EXCEPT ![k] = [NoCall EXCEPT !.route = "PUT primary", !.user = u,
                                                   !.pc = "select", !.imageId = imageId]]
  /\ UNCHANGED <<storedArtifacts, imageRows, tagRows, artifactTagRows, outsideStore>>

\* POST /api/artifacts/:id/images, requester u, up to its first await: 401
\* for a requester who is not authenticated, else storage.getArtifact
uploadRoute(k, u, artifactId, isPrimary) ==
  /\ calls[k] = NoCall
  /\ calls' = [calls EXCEPT ![k] = [NoCall EXCEPT !.route = "POST images", !.user = u,
                                                   !.pc = IF u.authenticated THEN "getArtifact"
                                                          ELSE "done",
                                                   !.artifactId = artifactId,
                                                   !.isPrimary = isPrimary]]
  /\ UNCHANGED <<storedArtifacts, imageRows, tagRows, artifactTagRows, outsideStore>>

\* the artifact is read: 404 when it is not there, 403 for a requester who is
\* neither curator nor admin (the artifacts table has no user_id column, so
\* artifact.user_id never equals req.user.id), else storage.addArtifactImage
getArtifact(k) ==
  /\ calls[k].pc = "getArtifact"
  /\ calls' = [calls EXCEPT ![k].pc =
                 IF /\ \E a \in storedArtifacts : a.id = calls[k].artifactId
                    /\ calls[k].user.role \in {"curator", "admin"}
                 THEN "insert" ELSE "done"]
  /\ UNCHANGED <<storedArtifacts, imageRows, tagRows, artifactTagRows, outsideStore>>

\* DatabaseStorage.addArtifactImage: the row is inserted as the request gave
\* it; the handler then calls setPrimaryImage when is_primary was set
addArtifactImage(k) ==
  /\ calls[k].pc = "insert"
  /\ Cardinality(imageRows) < MaxImages
  /\ LET id == Cardinality(imageRows) + 1
     IN /\ imageRows' = imageRows \cup
             {[id |-> id, artifact_id |-> calls[k].artifactId, url |-> "upload",
               is_primary |-> calls[k].isPrimary, sort_order |-> 0]}
        /\ calls' = [calls EXCEPT ![k].pc = IF calls[k].isPrimary THEN "select" ELSE "done",
                                  ![k].imageId = id]
  /\ UNCHANGED <<storedArtifacts, tagRows, artifactTagRows, outsideStore>>

\* DatabaseStorage.setPrimaryImage, its select: undefined when no row has the id
selectImage(k) ==
  /\ calls[k].pc = "select"
  /\ IF \E r \in imageRows : r.id = calls[k].imageId
     THEN calls' = [calls EXCEPT ![k].pc = "reset",
                                 ![k].found = TRUE,
                                 ![k].artifactId =
                                    (CHOOSE r \in imageRows : r.id = calls[k].imageId).artifact_id]
     ELSE calls' = [calls EXCEPT ![k].pc = "done"]
  /\ UNCHANGED <<storedArtifacts, imageRows, tagRows, artifactTagRows, outsideStore>>

\* DatabaseStorage.setPrimaryImage, its first update: is_primary false on
\* every image of the artifact
resetPrimary(k) ==
  /\ calls[k].pc = "reset"
  /\ imageRows' = {IF r.artifact_id = calls[k].artifactId THEN [r EXCEPT !.is_primary = FALSE]
                   ELSE r : r \in imageRows}
  /\ calls' = [calls EXCEPT ![k].pc = "set"]
  /\ UNCHANGED <<storedArtifacts, tagRows, artifactTagRows, outsideStore>>

\* DatabaseStorage.setPrimaryImage, its second update: is_primary true on the
\* image; the call returns and the handler answers
setPrimary(k) ==
  /\ calls[k].pc = "set"
  /\ imageRows' = {IF r.id = calls[k].imageId THEN [r EXCEPT !.is_primary = TRUE]
                   ELSE r : r \in imageRows}
  /\ calls' = [calls EXCEPT ![k].pc = "done"]
  /\ UNCHANGED <<storedArtifacts, tagRows, artifactTagRows, outsideStore>>

\* the response is sent
callEnds(k) ==
  /\ calls[k].pc = "done"
  /\ calls' = [calls EXCEPT ![k] = NoCall]
  /\ UNCHANGED <<storedArtifacts, imageRows, tagRows, artifactTagRows, outsideStore>>

\* the tables as the other specifications leave them, no call being served
StoreIdle ==
  /\ storedArtifacts = ArtifactRows
  /\ tagRows = <<>>
  /\ artifactTagRows = <<>>
  /\ calls = [k \in 1..MaxCalls |-> NoCall]

\* -------------------------------------------------------------- SearchBar
\* the texts typed into the search box: nothing, two letters, three letters,
\* three blanks
TypedTexts == {EmptyText, <<"a", "x">>, <<"a", "x", "e">>, <<Space, Space, Space>>}

\* the mock suggestions handleInputChange sets for the text typed
Suggestions(newQuery) ==
  IF Len(newQuery) > 2
  THEN <<newQuery \o <<Space, "artifacts">>, newQuery \o <<Space, "culture">>,
         <<"ancient", Space>> \o newQuery, newQuery \o <<Space, "period">>>>
  ELSE <<>>

\* SearchBar.handleInputChange
handleInputChange(t) ==
  /\ isFocused
  /\ t # query
  /\ query' = t
  /\ suggestions' = Suggestions(t)
  /\ UNCHANGED <<isFocused, homeVars>>

\* the input's onFocus
focusInput ==
  /\ ~isFocused
  /\ isFocused' = TRUE
  /\ UNCHANGED <<query, suggestions, homeVars>>

\* the mousedown listener of the document: a press outside the input
handleClickOutside ==
  /\ isFocused
  /\ isFocused' = FALSE
  /\ UNCHANGED <<query, suggestions, homeVars>>

\* SearchBar.clearSearch, from the X button shown while there is text: the
\* text is emptied and the input focused again
clearSearch ==
  /\ query # EmptyText
  /\ query' = EmptyText
  /\ isFocused' = TRUE
  /\ UNCHANGED <<suggestions, homeVars>>

\* SearchBar.handleSubmit run by a render whose query state is text
handleSubmit(text) ==
  IF ~IsBlank(text) THEN searchBarSubmit(text) ELSE UNCHANGED homeVars

\* the onClick of the i-th suggestion, activated while the list is shown:
\* setQuery(suggestion) takes effect at the next render, the handleSubmit
\* called right after it is the one of the render that is on screen
suggestionClick(i) ==
  /\ isFocused
  /\ i \in DOMAIN suggestions
  /\ query' = suggestions[i]
  /\ handleSubmit(query)
  /\ UNCHANGED <<isFocused, suggestions>>

\* the search box as it mounts
BarIdle ==
  /\ query = EmptyText
  /\ isFocused = FALSE
  /\ suggestions = <<>>

\* ---------------------------------------------------------- specifications
\* The home page: its filter state under the user's events.
Init ==
  /\ HomeInit
  /\ PagesIdle
  /\ esClient = FALSE
  /\ imageRows = {}
  /\ SearchIdle
  /\ queries = NoQueries
  /\ StoreIdle
  /\ BarIdle

Next ==
  \/ \E c \in AvailableCultures : toggleCulture(c) /\ UNCHANGED <<pageVars, searchVars, clientVars, storeVars, barVars>>
  \/ \E m \in AvailableMaterials : toggleMaterial(m) /\ UNCHANGED <<pageVars, searchVars, clientVars, storeVars, barVars>>
  \/ \E v \in SliderStops : handleSliderChange(v) /\ UNCHANGED <<pageVars, searchVars, clientVars, storeVars, barVars>>
  \/ toggleHas3dModel /\ UNCHANGED <<pageVars, searchVars, clientVars, storeVars, barVars>>
  \/ \E o \in SortOptions : changeSort(o) /\ UNCHANGED <<pageVars, searchVars, clientVars, storeVars, barVars>>
  \/ applyFilters /\ UNCHANGED <<pageVars, searchVars, clientVars, storeVars, barVars>>
  \/ resetFilters /\ UNCHANGED <<pageVars, searchVars, clientVars, storeVars, barVars>>
  \/ \E c \in AvailableCultures : removeCulture(c) /\ UNCHANGED <<pageVars, searchVars, clientVars, storeVars, barVars>>
  \/ \E m \in AvailableMaterials : removeMaterial(m) /\ UNCHANGED <<pageVars, searchVars, clientVars, storeVars, barVars>>
  \/ removeDateRange /\ UNCHANGED <<pageVars, searchVars, clientVars, storeVars, barVars>>
  \/ removeHas3dModel /\ UNCHANGED <<pageVars, searchVars, clientVars, storeVars, barVars>>
  \/ \E p \in 1..MaxPage : handlePageChange(p) /\ UNCHANGED <<pageVars, searchVars, clientVars, storeVars, barVars>>
  \/ \E t \in SearchTexts : searchBarSubmit(t) /\ UNCHANGED <<pageVars, searchVars, clientVars, storeVars, barVars>>
  \/ \E u \in InitialSearches : navigate(u) /\ UNCHANGED <<pageVars, searchVars, clientVars, storeVars, barVars>>
  \/ \E u \in InitialSearches : openDeepLink(u) /\ UNCHANGED <<pageVars, searchVars, clientVars, storeVars, barVars>>

Spec == Init /\ [][Next]_vars

\* The home page opened at deep links.
InitDeepLink ==
  /\ HomeInit
  /\ search = NoParams
  /\ PagesIdle
  /\ esClient = FALSE
  /\ imageRows = {}
  /\ SearchIdle
  /\ queries = NoQueries
  /\ StoreIdle
  /\ BarIdle

NextDeepLink ==
  \E u \in DeepLinks : openDeepLink(u) /\ UNCHANGED <<pageVars, searchVars, clientVars, storeVars, barVars>>

SpecDeepLink == InitDeepLink /\ [][NextDeepLink]_vars

\* The home page with its search query: a few controls, the responses of the
\* requests arriving at any time.
InitClient ==
  /\ HomeInit
  /\ search = NoParams
  /\ PagesIdle
  /\ esClient = FALSE
  /\ imageRows = {}
  /\ SearchIdle
  /\ queries = Observe(NoQueries, RequestKey(FilterState))
  /\ StoreIdle
  /\ BarIdle

NextClient ==
  \/ toggleCulture(Str("Roman")) /\ observe /\ UNCHANGED <<pageVars, searchVars, storeVars, barVars>>
  \/ \E p \in {1, 2} : handlePageChange(p) /\ observe /\ UNCHANGED <<pageVars, searchVars, storeVars, barVars>>
  \/ applyFilters /\ observe /\ UNCHANGED <<pageVars, searchVars, storeVars, barVars>>
  \/ resetFilters /\ observe /\ UNCHANGED <<pageVars, searchVars, storeVars, barVars>>
  \/ \E k \in DOMAIN queries : responseArrives(k)
  \/ \E k \in DOMAIN queries : requestFails(k)
  \/ refetch

SpecClient == InitClient /\ [][NextClient]_vars

\* The page-number control.
InitPages ==
  /\ PagesInit
  /\ esClient = FALSE
  /\ imageRows = {}
  /\ SearchIdle
  /\ queries = NoQueries
  /\ StoreIdle
  /\ BarIdle

NextPages ==
  \/ generatePagesEffect /\ UNCHANGED <<searchVars, clientVars, storeVars, barVars>>
  \/ \E p \in 1..MaxTotalPages : clickPageNumber(p) /\ UNCHANGED <<searchVars, clientVars, storeVars, barVars>>
  \/ clickPrevious /\ UNCHANGED <<searchVars, clientVars, storeVars, barVars>>
  \/ clickNext /\ UNCHANGED <<searchVars, clientVars, storeVars, barVars>>
  \/ \E tp \in 1..MaxTotalPages : receiveTotalPages(tp) /\ UNCHANGED <<searchVars, clientVars, storeVars, barVars>>

SpecPages == InitPages /\ [][NextPages]_vars

\* The search endpoint serving one request after another.
InitSearch ==
  /\ search = NoParams
  /\ searchQuery = EmptyText
  /\ cultures = <<>>
  /\ materials = <<>>
  /\ dateRange = <<DefaultDateStart, DefaultDateEnd>>
  /\ has3dModel = FALSE
  /\ sortOption = DefaultSort
  /\ currentPage = 1
  /\ sliderValue = DefaultDateStart
  /\ PagesIdle
  /\ esClient \in BOOLEAN
  /\ imageRows \in ImageTables
  /\ SearchIdle
  /\ queries = NoQueries
  /\ StoreIdle
  /\ BarIdle

NextSearch ==
  \/ pc = "idle" /\ \E q \in SearchRequests \cup EdgeRequests : receiveRequest(q)
  \/ backendReturns
  \/ backendFails
  \/ \E i \in 1..Cardinality(ArtifactRows) : lookupCompletes(i)
  \/ respond
  \/ requestEnds

SpecSearch == InitSearch /\ [][NextSearch]_vars

\* The tables of the database and no request being served.
InitStore ==
  /\ InitSearch
  /\ esClient = FALSE

\* The routes documented as requiring a role, asked by any requester.
NextRoles ==
  \/ \E u \in Requesters : \E id \in {1, 7} : deleteArtifactRoute(u, id)
  \/ \E u \in Requesters : createTagRoute(u, Str("tool"))
  \/ \E u \in Requesters : addTagRoute(u, 1, 1)
  \/ \E u \in Requesters : removeTagRoute(u, 1, 1)
  \/ \E u \in Requesters : \E id \in {1, 2, 7} : setPrimaryRoute(1, u, id)
  \/ selectImage(1)
  \/ resetPrimary(1)
  \/ setPrimary(1)
  \/ callEnds(1)

SpecRoles == InitStore /\ [][NextRoles]_vars

\* The image routes, their requests served concurrently.
NextStore ==
  \/ \E k \in 1..MaxCalls : \E u \in Requesters : \E id \in {1, 2, 7} :
       u.role = "curator" /\ setPrimaryRoute(k, u, id)
  \/ \E k \in 1..MaxCalls : \E u \in Requesters : \E p \in BOOLEAN : uploadRoute(k, u, 1, p)
  \/ \E k \in 1..MaxCalls : getArtifact(k)
  \/ \E k \in 1..MaxCalls : addArtifactImage(k)
  \/ \E k \in 1..MaxCalls : selectImage(k)
  \/ \E k \in 1..MaxCalls : resetPrimary(k)
  \/ \E k \in 1..MaxCalls : setPrimary(k)
  \/ \E k \in 1..MaxCalls : callEnds(k)

SpecStore == InitStore /\ [][NextStore]_vars

\* The search box of the header over the home page.
NextBar ==
  \/ \E t \in TypedTexts : handleInputChange(t) /\ UNCHANGED <<pageVars, searchVars, clientVars, storeVars>>
  \/ focusInput /\ UNCHANGED <<pageVars, searchVars, clientVars, storeVars>>
  \/ handleClickOutside /\ UNCHANGED <<pageVars, searchVars, clientVars, storeVars>>
  \/ clearSearch /\ UNCHANGED <<pageVars, searchVars, clientVars, storeVars>>
  \/ handleSubmit(query) /\ UNCHANGED <<barVars, pageVars, searchVars, clientVars, storeVars>>
  \/ \E i \in 1..4 : suggestionClick(i) /\ UNCHANGED <<pageVars, searchVars, clientVars, storeVars>>

SpecBar == Init /\ [][NextBar]_vars

\* ================================================================ properties
\* ---- filter state (Spec)

\* the fields of the filter state other than the page
FilterFields == <<searchQuery, cultures, materials, dateRange, has3dModel, sortOption>>

\* C1: after every committed mutation of the filter state other than a page
\* change (facet toggle, chip removal, date-range change, 3D-model flag change,
\* sort change, Apply Filters, reset) the current page is 1.
C1_PageResetOnFilterChange == [][FilterFields' # FilterFields => currentPage' = 1]_vars

DefaultFilterState ==
  [searchQuery |-> EmptyText, cultures |-> <<>>, materials |-> <<>>,
   dateRange |-> <<DefaultDateStart, DefaultDateEnd>>, has3dModel |-> FALSE,
   sortOption |-> DefaultSort, currentPage |-> 1]

\* a filter state with its facet selections taken as sets
AsSets(s) == [s EXCEPT !.cultures = Range(s.cultures), !.materials = Range(s.materials)]

\* a filter state handed to buildSearchQueryString
ToSearchParams(s) ==
  [NoSearchParams EXCEPT
     !.query = s.searchQuery, !.cultures = ArrParam(s.cultures),
     !.materials = ArrParam(s.materials), !.dateStart = Some(s.dateRange[1]),
     !.dateEnd = Some(s.dateRange[2]), !.has3dModel = Some(s.has3dModel),
     !.page = Some(s.currentPage), !.sort = s.sortOption]

\* the filter state parseSearchParams' result stands for, an absent field
\* being its default
FromSearchParams(r) ==
  [searchQuery |-> IF r.query = Null THEN EmptyText ELSE r.query,
   cultures |-> IF r.cultures = Undef THEN {} ELSE Range(AsArray(r.cultures)),
   materials |-> IF r.materials = Undef THEN {} ELSE Range(AsArray(r.materials)),
   dateRange |-> <<IF r.dateStart = None THEN DefaultDateStart ELSE r.dateStart[1],
                   IF r.dateEnd = None THEN DefaultDateEnd ELSE r.dateEnd[1]>>,
   has3dModel |-> IF r.has3dModel = None THEN FALSE ELSE r.has3dModel[1],
   sortOption |-> IF r.sort = Null THEN DefaultSort ELSE r.sort,
   currentPage |-> IF r.page = None THEN 1 ELSE r.page[1]]

\* C3: for every reachable filter state s, parsing the query string that
\* serializing s produced gives back the query text, the culture and material
\* sets, the date range, the 3D-model flag, the sort and the page of s, with the
\* home page's pair (buildQueryString, hydration) and with lib/api's pair
\* (buildSearchQueryString, parseSearchParams).
C3_RoundTrip ==
  /\ AsSets(Hydrate(buildQueryString(FilterState))) = AsSets(FilterState)
  /\ FromSearchParams(parseSearchParams(buildSearchQueryString(ToSearchParams(FilterState))))
       = AsSets(FilterState)

\* C4: serializing the default filter state gives the empty query string, and
\* parsing the empty query string gives the default filter state.
C4_DefaultOmission ==
  /\ Hydrate(NoParams) = DefaultFilterState
  /\ FilterState = DefaultFilterState =>
       /\ buildQueryString(FilterState) = NoParams
       /\ buildSearchQueryString(ToSearchParams(FilterState)) = NoParams

\* ---- deep links (SpecDeepLink)

\* a text that is an integer: an optional sign, then digits only
IsInteger(t) ==
  LET body == IF t # <<>> /\ Head(t) \in {"-", "+"} THEN Tail(t) ELSE t
  IN body # <<>> /\ \A i \in 1..Len(body) : IsDigit(body[i])

\* C16: hydrating the filter state from a URL whose dateStart, dateEnd or page
\* is not a valid integer gives the default of that field (-3000, 2000, 1), with
\* the home page's hydration and with parseSearchParams; the hydrated state
\* never holds a not-a-number value.
C16_MalformedNumericsDefault ==
  /\ ~IsInteger(ParamsGet(search, "dateStart")) =>
       /\ dateRange[1] = DefaultDateStart
       /\ FromSearchParams(parseSearchParams(search)).dateRange[1] = DefaultDateStart
  /\ ~IsInteger(ParamsGet(search, "dateEnd")) =>
       /\ dateRange[2] = DefaultDateEnd
       /\ FromSearchParams(parseSearchParams(search)).dateRange[2] = DefaultDateEnd
  /\ ~IsInteger(ParamsGet(search, "page")) =>
       /\ currentPage = 1
       /\ FromSearchParams(parseSearchParams(search)).currentPage = 1
  /\ NaN \notin {dateRange[1], dateRange[2], currentPage}

\* ---- address bar (Spec)

\* C17: the address-bar query string and the filter state agree: parsing the
\* current query string gives the current filter state, after every control
\* event and every navigation (no event is ever pending between two steps).
C17_UrlAgreesWithState == Hydrate(search) = FilterState

\* a staged edit of the sidebar: a checkbox ticked, the slider moved, the
\* 3D-model flag set
StagedEdit ==
  \/ Len(cultures') > Len(cultures)
  \/ Len(materials') > Len(materials)
  \/ sliderValue' # sliderValue
  \/ ~has3dModel /\ has3dModel'

\* C19: facet checkbox toggles, slider moves and 3D-model flag changes made
\* before Apply Filters do not change the request key sent to /api/search (no
\* request is issued for them); only a committed change does.
C19_NoRequestBeforeApply ==
  [][StagedEdit => RequestKey(FilterState)' = RequestKey(FilterState)]_vars

\* ---- search query and display (SpecClient)

C20_DisplayStatesExclusive ==
  /\ ~(LoadingShown /\ ErrorShown)
  /\ ~(LoadingShown /\ EmptyShown)
  /\ ~(ErrorShown /\ EmptyShown)
  /\ GridShown => ~(LoadingShown \/ ErrorShown \/ EmptyShown)
  /\ isError => ~CountShown /\ ~EmptyShown

\* ---- GET /api/search (SpecSearch)

\* the request was answered with a result page
Answered == pc = "done" /\ response.status = 200

\* C2: in fallback mode the reported total is the number of artifacts in the
\* store, whatever the page and limit, and totalPages = ceil(total / limit), so
\* a store with more artifacts than limit has totalPages > 1.
C2_FallbackPagination ==
  (Answered /\ ~esClient) =>
    /\ response.pagination.total = Cardinality(ArtifactRows)
    /\ response.pagination.totalPages
         = Ceil(response.pagination.total, response.pagination.limit)
    /\ Cardinality(ArtifactRows) > response.pagination.limit =>
         response.pagination.totalPages > 1

\* the terms clauses of the compiled query on a field
TermsOn(field) ==
  SelectSeq(backendQuery.body.filter, LAMBDA c : c.kind = "terms" /\ c.field = field)

\* the values v1..vn of a comma-joined facet parameter
JoinedValues(v) == Range(FilterBoolean(Split(v[2], Comma)))

\* a facet given as one comma-joined string is compiled to the terms clause
\* on its values, and to no clause when it has none
FacetCompiled(v, field) ==
  v[1] = "str" =>
    IF JoinedValues(v) = {} THEN TermsOn(field) = <<>>
    ELSE /\ Len(TermsOn(field)) = 1
         /\ Range(TermsOn(field)[1].values) = JoinedValues(v)

\* C5: in engine mode a cultures, materials or tags parameter given as the
\* comma-joined string v1,...,vn is compiled to one terms filter on that facet
\* whose value set is {v1,...,vn}, one per non-empty facet, none for an empty one.
C5_FacetTermsFromJoinedString ==
  backendQuery.engine = "es" =>
    /\ FacetCompiled(reqQuery.cultures, "culture")
    /\ FacetCompiled(reqQuery.materials, "materials")
    /\ FacetCompiled(reqQuery.tags, "tags")

\* the image rows of an artifact
ImagesOf(artifactId) == {r \in imageRows : r.artifact_id = artifactId}

\* the rows of a set that come first by sort order
FirstBySortOrder(rows) == {r \in rows : \A o \in rows : r.sort_order <= o.sort_order}

\* the URLs the primary image URL may be: the first image flagged primary,
\* failing that the first image by sort order, failing that null
PrimaryUrls(rows) ==
  IF \E r \in rows : r.is_primary
  THEN {r.url : r \in FirstBySortOrder({o \in rows : o.is_primary})}
  ELSE IF rows # {} THEN {r.url : r \in FirstBySortOrder(rows)}
  ELSE {"null"}

\* the sort_order of the image with a URL
SortOrderOf(rows, url) == (CHOOSE r \in rows : r.url = url).sort_order

\* C6: every artifact of a search response has as primary image URL the URL of
\* its first image flagged primary, else of its first image by sort order, else
\* null, and as image URLs all its images' URLs in ascending sort order.
C6_Enrichment ==
  Answered =>
    \A i \in 1..Len(response.artifacts) :
      LET e == response.artifacts[i]
          rows == ImagesOf(e.art.id)
      IN /\ e.primary_image_url \in PrimaryUrls(rows)
         /\ Len(e.image_urls) = Cardinality(rows)
         /\ Range(e.image_urls) = {r.url : r \in rows}
         /\ \A j, k \in 1..Len(e.image_urls) :
              j < k => SortOrderOf(rows, e.image_urls[j]) <= SortOrderOf(rows, e.image_urls[k])

\* C7: whatever order the image lookups of a request complete in, the
\* artifacts of the response are in the order the backend returned them, each
\* with the images of its own id.
C7_OrderKeptByIndex ==
  Answered =>
    /\ Len(response.artifacts) = Len(hits)
    /\ \A i \in 1..Len(hits) :
         /\ response.artifacts[i].art = hits[i]
         /\ Range(response.artifacts[i].image_urls) = {r.url : r \in ImagesOf(hits[i].id)}

\* a response of at least two artifacts whose lookups completed out of order
C7_Witness ==
  /\ Answered
  /\ Len(hits) >= 2
  /\ \E a, b \in 1..Len(completed) : a < b /\ completed[a] > completed[b]

\* C9: the compiled ordering, in engine and in fallback mode, has id ascending
\* as its secondary key, so artifacts equal on the primary sort key come in id
\* order in every response.
C9_TieBreakById ==
  (Answered /\ backendQuery.body.sort # <<>>) =>
    \A i, j \in 1..Len(response.artifacts) :
      (i < j /\ FieldOf(response.artifacts[i].art, backendQuery.body.sort[1][1])
                  = FieldOf(response.artifacts[j].art, backendQuery.body.sort[1][1]))
        => /\ Len(backendQuery.body.sort) >= 2
           /\ backendQuery.body.sort[2] = <<"id", "asc">>
           /\ response.artifacts[i].art.id < response.artifacts[j].art.id

\* the range clauses of the compiled query
RangeClauses == SelectSeq(backendQuery.body.filter, LAMBDA c : c.kind = "range")

RequestedSort == IF Truthy(reqQuery.sort) THEN reqQuery.sort ELSE Str("relevance")

RequestedPage == IF Truthy(reqQuery.page) THEN ParseInt(reqQuery.page) ELSE 1

RequestedLimit == IF Truthy(reqQuery.limit) THEN ParseInt(reqQuery.limit) ELSE 12

\* C11: in engine mode the compiled sort clause is date_start ascending for
\* date_asc, date_start descending for date_desc, title ascending for az, id
\* descending for relevance with empty query text, and no explicit sort
\* (relevance scoring) only for relevance with non-empty query text; for the
\* other modes the query text does not change the clause.
C11_EngineSortClause ==
  backendQuery.engine = "es" =>
    /\ RequestedSort = Str("date_asc") => backendQuery.body.sort = <<<<"date_start", "asc">>>>
    /\ RequestedSort = Str("date_desc") => backendQuery.body.sort = <<<<"date_start", "desc">>>>
    /\ RequestedSort = Str("az") => backendQuery.body.sort = <<<<"title", "asc">>>>
    /\ (RequestedSort = Str("relevance") /\ ~Truthy(reqQuery.query))
         => backendQuery.body.sort = <<<<"id", "desc">>>>
    /\ backendQuery.body.sort = <<>>
         <=> (RequestedSort = Str("relevance") /\ Truthy(reqQuery.query))

\* an engine query for relevance with query text: the engine's scoring orders
C11_Witness ==
  /\ backendQuery.engine = "es"
  /\ reqQuery.sort = Null
  /\ reqQuery.query = Str("axe")
  /\ backendQuery.body.sort = <<>>

\* the one sort key the fallback maps a sort mode to
FallbackSortKey(mode) ==
  IF mode = Str("date_asc") THEN <<"date_start", "asc">>
  ELSE IF mode = Str("date_desc") THEN <<"date_start", "desc">>
  ELSE IF mode = Str("az") THEN <<"title", "asc">>
  ELSE <<"id", "desc">>

\* C12: in fallback mode the storage query has exactly one sort field and
\* direction, given by the sort mode alone (date_asc -> date_start ascending,
\* date_desc -> date_start descending, az -> title ascending, relevance -> id
\* descending), and is a function of sort mode, page and limit only: requests
\* that differ only in query text, facets, date range, site or 3D-model flag
\* give the same query.
C12_FallbackSort ==
  backendQuery.engine = "db" =>
    /\ Len(backendQuery.body.sort) = 1
    /\ backendQuery.body.sort[1] = FallbackSortKey(RequestedSort)
    /\ backendQuery =
         [engine |-> "db", from |-> (RequestedPage - 1) * RequestedLimit,
          size |-> RequestedLimit,
          body |-> [must |-> <<>>, filter |-> <<>>,
                    sort |-> <<FallbackSortKey(RequestedSort)>>]]

\* a fallback query for sort az of a request with query text, cultures, a date
\* range and the 3D-model flag
C12_Witness ==
  /\ backendQuery.engine = "db"
  /\ reqQuery.sort = Str("az")
  /\ reqQuery.query = Str("axe")
  /\ reqQuery.cultures # Undef
  /\ reqQuery.dateStart # Null
  /\ reqQuery.has3dModel = Str("true")
  /\ backendQuery.body.sort = <<<<"title", "asc">>>>

\* C13: for every accepted request the backend query's offset is
\* (page - 1) * limit and its size is limit, in engine and in fallback mode.
C13_OffsetAndSize ==
  backendQuery.engine # "none" =>
    /\ backendQuery.from = (RequestedPage - 1) * RequestedLimit
    /\ backendQuery.size = RequestedLimit

\* page 2 with the default page size 12 in engine mode: offset 12, size 12
C13_Witness ==
  /\ backendQuery.engine = "es"
  /\ reqQuery.page = NumToStr(2)
  /\ reqQuery.limit = Null
  /\ backendQuery.from = 12
  /\ backendQuery.size = 12

\* C14: no backend query is issued with page < 1, limit <= 0 or limit > 100:
\* the offset is never negative and the size is within 1..100.
C14_PageAndLimitInRange ==
  backendQuery.engine # "none" =>
    /\ RequestedPage >= 1
    /\ backendQuery.from >= 0
    /\ backendQuery.size \in 1..100

\* C15: a request whose sort value is not one of relevance, date_asc,
\* date_desc, az is answered with status 400 whose errors name sort, and no
\* backend (search engine, storage) is queried for it.
C15_InvalidSortRejected ==
  (pc # "idle" /\ reqQuery.sort # Null /\ reqQuery.sort \notin SortEnum) =>
    /\ pc = "done"
    /\ response.status = 400
    /\ "sort" \in response.errors
    /\ backendQuery = NoQuery
    /\ hits = <<>>
    /\ completed = <<>>

\* ---- page numbers (SpecPages)

\* the page numbers of a generated sequence, ellipses left out
PageNumbers(seq) == SelectSeq(seq, LAMBDA x : x # Ellipsis)

\* the page numbers strictly between the first and the last page
Window(seq, tp) == Range(PageNumbers(seq)) \ {1, tp}

\* a set of consecutive numbers
Consecutive(S) == \A a, b \in S : \A x \in a..b : x \in S

\* C8: for 1 <= currentPage <= totalPages the generated sequence is every page
\* 1..totalPages when totalPages <= 7; otherwise page 1, the last page and a
\* window of at most 3 consecutive pages inside [2, totalPages - 1] around
\* currentPage, with one ellipsis exactly where pages are skipped.  The page
\* numbers are strictly increasing.
C8_PageSequence ==
  (~effectPending /\ 1 <= currentPage /\ currentPage <= totalPages) =>
    LET nums == PageNumbers(pages)
    IN /\ \A i, j \in 1..Len(nums) : i < j => nums[i] < nums[j]
       /\ totalPages <= 7 => pages = Numbers(1, totalPages)
       /\ totalPages > 7 =>
            /\ pages[1] = 1
            /\ pages[Len(pages)] = totalPages
            /\ currentPage \in Range(nums)
            /\ Window(pages, totalPages) \subseteq 2..(totalPages - 1)
            /\ Cardinality(Window(pages, totalPages)) <= 3
            /\ Consecutive(Window(pages, totalPages))
            /\ \A i \in 1..Len(pages) :
                 pages[i] = Ellipsis =>
                   /\ 1 < i
                   /\ i < Len(pages)
                   /\ pages[i - 1] # Ellipsis
                   /\ pages[i + 1] # Ellipsis
                   /\ pages[i + 1] > pages[i - 1] + 1
            /\ \A i \in 1..(Len(pages) - 1) :
                 (pages[i] # Ellipsis /\ pages[i + 1] # Ellipsis) => pages[i + 1] = pages[i] + 1

\* the sequence generated for page 5 of 10
C8_Witness ==
  /\ ~effectPending
  /\ totalPages = 10
  /\ currentPage = 5
  /\ pages = <<1, Ellipsis, 4, 5, 6, Ellipsis, 10>>

\* ---- active-filter chips, reset, toggles, slider (Spec)

\* the chips a filter state calls for, one per non-default field or selected value
NonDefaultFields(s) ==
  {<<"culture", c>> : c \in Range(s.cultures)}
  \cup {<<"material", m>> : m \in Range(s.materials)}
  \cup (IF s.dateRange # <<DefaultDateStart, DefaultDateEnd>>
        THEN {<<"dateRange", EmptyText>>} ELSE {})
  \cup (IF s.has3dModel THEN {<<"has3dModel", EmptyText>>} ELSE {})
  \cup (IF s.searchQuery # EmptyText THEN {<<"query", EmptyText>>} ELSE {})
  \cup (IF s.sortOption # DefaultSort THEN {<<"sort", EmptyText>>} ELSE {})

\* state t is state s with the field or value of the chip back to its default
\* and every other field as it was
ChipRemoved(s, chip, t) ==
  CASE chip[1] = "culture" ->
         /\ Range(t.cultures) = Range(s.cultures) \ {chip[2]}
         /\ [t EXCEPT !.cultures = s.cultures] = s
    [] chip[1] = "material" ->
         /\ Range(t.materials) = Range(s.materials) \ {chip[2]}
         /\ [t EXCEPT !.materials = s.materials] = s
    [] chip[1] = "dateRange" ->
         t = [s EXCEPT !.dateRange = DefaultFilterState.dateRange]
    [] chip[1] = "has3dModel" -> t = [s EXCEPT !.has3dModel = FALSE]
    [] chip[1] = "query" -> t = [s EXCEPT !.searchQuery = EmptyText]
    [] chip[1] = "sort" -> t = [s EXCEPT !.sortOption = DefaultSort]

\* C21: in every reachable filter state the active-filter chips are exactly
\* one per non-default field (each selected culture, each selected material,
\* the date range, the 3D-model flag, the query text, the sort), and a chip's
\* remove action gives the state with exactly that field or value back to its
\* default and every other field unchanged.
C21_ChipsAndRemoval ==
  LET chips == ActiveFilters(FilterState)
  IN /\ Range(chips) = NonDefaultFields(FilterState)
     /\ \A i, j \in 1..Len(chips) : i # j => chips[i] # chips[j]
     /\ \A i \in 1..Len(chips) :
          ChipRemoved(FilterState, chips[i],
                      removeFilter(FilterState, chips[i][1], chips[i][2]))

\* C22: reset applied in any reachable state gives the default filter state
\* in every field (empty query text, no cultures, no materials, date range
\* [-3000, 2000], 3D-model flag false, sort relevance, page 1), and the query
\* string built for the request right after it is empty.
C22_ResetRestoresDefaults ==
  [][(searchQuery' = EmptyText /\ resetFilters) =>
       /\ FilterState' = DefaultFilterState
       /\ buildQueryString(FilterState)' = NoParams]_vars

\* the default state under a URL that carries query text, a culture, a date
\* range and page 2, as after opening that URL and pressing Reset
C22_Witness ==
  /\ Hydrate(search).searchQuery = Str("axe")
  /\ Hydrate(search).currentPage = 2
  /\ FilterState = DefaultFilterState
  /\ buildQueryString(FilterState) = NoParams

\* ---- failure and degradation of GET /api/search (SpecSearch)

\* the request passed validation, the engine was called and the call failed
EngineCallFailed ==
  /\ pc = "done"
  /\ esClient
  /\ backendQuery # NoQuery
  /\ response.status # 200

\* C23: when the search engine client is configured and the engine call fails,
\* GET /api/search answers, and its answer is distinguishable as
\* BackendUnavailable: it is neither the validation answer (400) nor the
\* answer next(err) gives to every other error (500).
C23_BackendUnavailableDistinct ==
  EngineCallFailed => response.status \notin {NoResponse.status, 400, 500}

\* the request carried query text, a facet, a date bound, a site or the
\* 3D-model flag
CarriesFilters(q) ==
  \/ q.query # Null
  \/ q.cultures # Undef
  \/ q.materials # Undef
  \/ q.tags # Undef
  \/ q.dateStart # Null
  \/ q.dateEnd # Null
  \/ q.site # Null
  \/ q.has3dModel # Null

\* C24: in fallback mode, a response to a request that carried query text,
\* facets, a date range, a site or the 3D-model flag has, beside the artifacts
\* and the pagination, a capability note saying that the filters were ignored.
C24_CapabilityNote ==
  (Answered /\ ~esClient /\ CarriesFilters(reqQuery)) =>
    BodyKeys(response) \ {"artifacts", "pagination"} # {}

\* selection new is selection old with value v toggled, and toggling v again
\* gives the values of old back
ToggleEffect(old, new, v) ==
  /\ v \notin Range(old) => Range(new) = Range(old) \cup {v}
  /\ v \in Range(old) => Range(new) = Range(old) \ {v}
  /\ Range(Toggled(new, v)) = Range(old)

\* C25: toggling a facet value that is not selected adds it, toggling a
\* selected value removes it, no other value of the facet and no other filter
\* field changes, and toggling the same value again restores the original
\* selection set.
C25_ToggleSymmetric ==
  [][/\ cultures' # cultures =>
          \A c \in AvailableCultures :
            toggleCulture(c) =>
              /\ ToggleEffect(cultures, cultures', c)
              /\ [FilterState EXCEPT !.cultures = cultures'] = FilterState'
     /\ materials' # materials =>
          \A m \in AvailableMaterials :
            toggleMaterial(m) =>
              /\ ToggleEffect(materials, materials', m)
              /\ [FilterState EXCEPT !.materials = materials'] = FilterState']_vars

\* two cultures ticked one after the other, and the material that the URL
\* selected (twice) unticked
C25_Witness ==
  /\ cultures = <<EmptyText, Str("Roman")>>
  /\ Hydrate(search).materials = <<Str("bronze"), Str("bronze")>>
  /\ materials = <<>>

\* C26: in every reachable state, after reset and after removal of the
\* date-range chip too, the value the date slider displays is the start year
\* of the filter state's date range.
C26_SliderShowsDateStart == sliderValue = dateRange[1]

\* ---- routes that require a role (SpecRoles)

\* the stored artifacts, images, tags and artifact-tag links
Stored == <<storedArtifacts, imageRows, tagRows, artifactTagRows>>

\* requester u is authenticated and has the role; an admin passes every check
\* of the curator role
HasRole(u, role) == u.authenticated /\ u.role \in {role, "admin"}

\* C27: a request to an endpoint documented as requiring a role (DELETE
\* /api/admin/artifacts/:id: admin; PUT /api/curator/images/:id/primary, POST
\* /api/curator/tags, POST and DELETE /api/curator/artifacts/:artifactId/tags/
\* :tagId: curator) changes the stored artifacts, images, tags and
\* artifact-tag links only when its requester is authenticated and has that
\* role.
C27_RoleGuardedWrites ==
  [][Stored' # Stored =>
       /\ \A u \in Requesters :
            /\ (\E id \in {1, 7} : deleteArtifactRoute(u, id)) => HasRole(u, "admin")
            /\ createTagRoute(u, Str("tool")) => HasRole(u, "curator")
            /\ addTagRoute(u, 1, 1) => HasRole(u, "curator")
            /\ removeTagRoute(u, 1, 1) => HasRole(u, "curator")
       /\ \A k \in 1..MaxCalls :
            (calls[k].route = "PUT primary" /\ calls'[k] # calls[k]) =>
              HasRole(calls[k].user, "curator")]_vars

\* ---- primary images (SpecStore)

\* the images of artifact a that are flagged primary
PrimaryOf(a) == {r \in imageRows : r.artifact_id = a /\ r.is_primary}

\* no call is in progress
Quiet == \A k \in 1..MaxCalls : calls[k].pc \in {"idle", "done"}

\* C28: in every reachable storage state, whatever the interleaving of
\* concurrent setPrimaryImage calls and uploads with is_primary set, an
\* artifact has at most one image flagged primary, and when a setPrimaryImage
\* call for an existing image has completed and no call is in progress the
\* image's artifact has exactly one.
C28_OnePrimaryImage ==
  /\ \A r \in imageRows : Cardinality(PrimaryOf(r.artifact_id)) <= 1
  /\ \A k \in 1..MaxCalls :
       (calls[k].pc = "done" /\ calls[k].found /\ Quiet) =>
         Cardinality(PrimaryOf(calls[k].artifactId)) = 1

\* ---- search suggestions (SpecBar)

\* the parameters of a query string other than the query text
OtherParams(params) == SelectSeq(params, LAMBDA pr : pr[1] # "query")

\* C30: clicking a search suggestion writes that suggestion, not the text
\* that was in the input before the click, to the URL's query parameter and
\* keeps the other URL parameters; a blank query triggers no navigation.
C30_SuggestionSubmitted ==
  [][/\ \A i \in 1..4 :
          suggestionClick(i) =>
            /\ ParamsGet(search', "query") = suggestions[i]
            /\ OtherParams(search') = OtherParams(search)
     /\ (IsBlank(query) /\ handleSubmit(query)) => search' = search]_vars

\* ---- page requests (SpecPages)

\* C29: whatever the current page, one past the last page too, an enabled
\* Previous, Next or numbered button calls onPageChange with a page p such
\* that 1 <= p <= totalPages.
C29_RequestedPageInRange ==
  [][currentPage' # currentPage => (1 <= currentPage' /\ currentPage' <= totalPages)]_vars

====
